---- MODULE Spec2Model ----
(***************************************************************************)
(* Model of autoFocus/focus.py (class Focus, class VirtualMotor) and of    *)
(* psbeam/morph.py.                                                        *)
(*                                                                         *)
(* Conventions.                                                            *)
(*  - Python exceptions are values of the variable err ("none" when no     *)
(*    exception is pending); an exception that leaves focus() or __init__  *)
(*    ends the run in "Aborted" or the construction in "Failed".           *)
(*  - focus.py uses names it never binds (Motor, IterScan, assert_equals,  *)
(*    image, current_pos, get_ave_focus, imager, self._get_ave_focus,      *)
(*    self.positions.next).  Python resolves them when the line runs, in   *)
(*    the namespace the process has then.  env = "shipped" is the module   *)
(*    as it is imported (the first such line raises NameError); env =      *)
(*    "patched" is a process that supplies every one of them (the blbase   *)
(*    Motor and IterScan classes, a positions object with next(), ...).    *)
(*  - VirtualMotor.mv reads its own loop variable before the loop: that is *)
(*    an UnboundLocalError in every environment.                           *)
(*  - The blbase collaborators (Motor, IterScan) are not part of the       *)
(*    repository: a Motor call returns or raises (MotionError), IterScan   *)
(*    walks the motor iterator calling the hooks around every step.        *)
(*  - pre_focus_hook and post_focus_hook are there to be overridden: a     *)
(*    hook returns or raises (HookError).                                  *)
(*  - OpenCV is not part of the repository either.  The sharpness metrics  *)
(*    and preprocess are kept as which image they were applied to; erode   *)
(*    and dilate are computed, on one-row binary images, with OpenCV's     *)
(*    default border (pixels outside the image do not count).              *)
(*  - Spec is the controller; SpecLive is Spec under the scheduling of one *)
(*    synchronous thread; SpecEnum, SpecVm, SpecAve and SpecMorph run      *)
(*    _get_motor_iters, a VirtualMotor, get_ave_focus and morph.py on      *)
(*    their own.                                                           *)
(***************************************************************************)
EXTENDS Integers, Sequences, FiniteSets, TLC

\* ------------------------------------------------------------------ bounds
\* Largest stop value of a (start, stop, step) triple handed to a scan.
MaxStop == 4
\* Largest averaged sharpness score the camera produces.
MaxScore == 2
\* Largest number of actuators in a group.
MaxMotors == 2
\* Number of focus() invocations made on one controller.
MaxRuns == 2
\* Number of objective evaluations the minimizer makes in one hill climb.
MaxEvals == 1
\* Largest sample count (average) of a get_ave_focus call taken on its own.
MaxSamples == 3
\* Largest content of a camera frame: frames are 0..MaxImage.
MaxImage == 2
\* Number of pixels of the one-row binary images given to morph.py.
MorphWidth == 5
\* Largest n_erode and n_dilate.
MaxIterations == 2

\* ------------------------------------------------------------------ values
\* Python values a position can be: None, a number, a tuple of numbers, or the
\* OptimizeResult object scipy's minimize returns (x: its converged position)
NoneV == [t |-> "None", v |-> <<>>]

IntV(x) == [t |-> "int", v |-> <<x>>]

TupV(xs) == [t |-> "tuple", v |-> xs]

ResultV(xs) == [t |-> "OptimizeResult", v |-> xs]

Max2(a, b) == IF a >= b THEN a ELSE b

Min2(a, b) == IF a <= b THEN a ELSE b

\* ceil(n / d) for d > 0
CeilDiv(n, d) == (n + d - 1) \div d

\* ------------------------------------------------------------------ range, zip
\* Python 2 len(range(start, stop, step)) for step # 0
range_len(start, stop, step) ==
    IF step > 0
    THEN (IF stop > start THEN CeilDiv(stop - start, step) ELSE 0)
    ELSE (IF start > stop THEN CeilDiv(start - stop, 0 - step) ELSE 0)

\* Python 2 range(start, stop, step): the list start, start+step, ...
py_range(start, stop, step) ==
    [i \in 1..range_len(start, stop, step) |-> start + (i - 1) * step]

\* the shortest length among a sequence of lists (0 for no list: zip() == [])
RECURSIVE min_len(_)
min_len(lists) ==
    IF Len(lists) = 0 THEN 0
    ELSE IF Len(lists) = 1 THEN Len(lists[1])
    ELSE Min2(Len(lists[1]), min_len(Tail(lists)))

\* Python 2 zip(*lists): tuple i holds element i of every list; the result is
\* cut to the shortest list
py_zip(lists) ==
    [i \in 1..min_len(lists) |-> [a \in 1..Len(lists) |-> lists[a][i]]]

\* ------------------------------------------------------------------ inputs
\* motor_pv: a PV name, a list of n PV names (strs: every entry is a string),
\* a prebuilt Motor, a prebuilt VirtualMotor of n motors, or something else
MotorPvs ==
    {[type |-> "name", n |-> 1, strs |-> TRUE],
     [type |-> "Motor", n |-> 1, strs |-> TRUE],
     [type |-> "other", n |-> 1, strs |-> TRUE]}
    \cup {[type |-> "names", n |-> k, strs |-> b] : k \in 0..MaxMotors, b \in BOOLEAN}
    \cup {[type |-> "VirtualMotor", n |-> k, strs |-> TRUE] : k \in 1..MaxMotors}

\* (start, stop, step) triples handed to the controller
Triples == {<<0, b, c>> : b \in 0..MaxStop, c \in 0..1}

\* one axis of a multi-axis positions list: a triple, or a list that is no triple
Axes == {<<0, b, 1>> : b \in 1..2} \cup {<<0, 1>>}

\* the positions kwarg: absent (None), a flat list of numbers (v), or a list of
\* lists (axes)
NonePositions == [shape |-> "none", v |-> <<>>, axes |-> <<>>]

Flat(t) == [shape |-> "flat", v |-> t, axes |-> <<>>]

Nested(l) == [shape |-> "nested", v |-> <<>>, axes |-> l]

Positions ==
    {NonePositions, Flat(<<>>), Flat(<<0, 1>>)}
    \cup {Flat(t) : t \in Triples}
    \cup {Nested(l) : l \in UNION {[1..k -> Axes] : k \in 1..MaxMotors}}

\* len(positions)
plen(p) == IF p.shape = "nested" THEN Len(p.axes) ELSE Len(p.v)

\* average: an int or not (2.0), and its value
Averages ==
    {[int |-> TRUE, val |-> 0], [int |-> TRUE, val |-> 1],
     [int |-> TRUE, val |-> 2], [int |-> FALSE, val |-> 2]}

BaseAverage == [int |-> TRUE, val |-> 1]

FocusMethods == {"scan", "hillclimb"}

SharpnessMethods == {"sobel", "laplacian"}

\* the names a caller may pass: the recognized ones and a misspelt one
MethodNames == FocusMethods \cup {"bogus"}

SharpnessNames == SharpnessMethods \cup {"bogus"}

\* the keyword arguments of Focus(motor_pv, camera_pv, **kwargs)
Configs ==
    [motor_pv : MotorPvs, camera_str : BOOLEAN, positions : Positions,
     resize : {-1, 0, 1}, kernel_tuple : BOOLEAN, kernel_len : {1, 2},
     sigma : {-1, 0}, average : Averages,
     method : MethodNames, sharpness : SharpnessNames]

\* a configuration in which everything has a valid value: one motor PV and a
\* scan of MaxStop positions
BaseConfig ==
    [motor_pv |-> [type |-> "name", n |-> 1, strs |-> TRUE], camera_str |-> TRUE,
     positions |-> Flat(<<0, MaxStop, 1>>),
     resize |-> 1, kernel_tuple |-> TRUE, kernel_len |-> 2, sigma |-> 0,
     average |-> BaseAverage,
     method |-> "scan", sharpness |-> "laplacian"]

\* a group of two motor PVs with a range for each
GroupConfig ==
    [BaseConfig EXCEPT !.motor_pv = [type |-> "names", n |-> 2, strs |-> TRUE],
                       !.positions = Nested(<<(<<0, 2, 1>>), (<<0, 2, 1>>)>>)]

\* the positions tried with every kind of motor_pv
TargetPositions ==
    {NonePositions, Flat(<<>>), Flat(<<0, 1>>), Flat(<<0, 1, 1>>), Flat(<<0, 1, 0>>)}
    \cup {Nested([i \in 1..k |-> <<0, 2, 1>>]) : k \in 1..MaxMotors}
    \cup {Nested([i \in 1..k |-> <<0, 1>>]) : k \in 1..MaxMotors}

\* the configurations a controller is constructed with: the base configuration
\* with every positions value, every kind of motor_pv with a few positions
\* values, and every combination of the other options with one motor and with
\* a group
ConfigInputs ==
    {[BaseConfig EXCEPT !.positions = p] : p \in Positions}
    \cup {[BaseConfig EXCEPT !.motor_pv = m, !.positions = p] :
            m \in MotorPvs, p \in TargetPositions}
    \cup {c \in Configs : /\ c.motor_pv = BaseConfig.motor_pv
                          /\ c.positions = BaseConfig.positions}
    \cup {c \in Configs : /\ c.motor_pv = GroupConfig.motor_pv
                          /\ c.positions = GroupConfig.positions}

\* ------------------------------------------------------------------ Focus.__init__
\* isiterable(obj) of the module, on a positions value or one of its elements
isiterable_positions(p) == p.shape # "none"

\* a sample count one too lenient: zero samples pass
average_ok_lenient(a) == a.int /\ a.val >= 0

\* lines 80-81: the sample count is an int and positive
average_ok(a) == a.int /\ a.val > 0

\* _check_arguments: "none", or the exception the first failing line raises
\* (the assert statements run: the interpreter is not started with -O)
check_arguments(e, c) ==
    LET mp == c.motor_pv
        p  == c.positions
        n  == plen(p)
        \* each of the first k elements of positions is a list of three
        triples(k) == \A i \in 1..k : p.shape = "nested" /\ Len(p.axes[i]) = 3
    IN
    IF ~isiterable_positions(p) THEN "AssertionError"
    \* line 60: a list short-circuits; anything else evaluates the name Motor
    ELSE IF mp.type # "names" /\ e = "shipped" THEN "NameError"
    ELSE IF mp.type = "other" THEN "AssertionError"
    \* line 62: evaluates the name Motor
    ELSE IF e = "shipped" THEN "NameError"
    ELSE IF mp.type \in {"name", "Motor"} /\ n # 3 THEN "AssertionError"
    ELSE IF mp.type = "names" /\ n # mp.n THEN "AssertionError"
    ELSE IF mp.type = "names" /\ ~(mp.strs /\ triples(Min2(n, mp.n))) THEN "AssertionError"
    ELSE IF mp.type = "VirtualMotor" /\ n # mp.n THEN "AssertionError"
    ELSE IF mp.type = "VirtualMotor" /\ ~triples(n) THEN "AssertionError"
    ELSE IF ~c.camera_str THEN "AssertionError"
    ELSE IF ~(c.resize > 0) THEN "AssertionError"
    ELSE IF ~c.kernel_tuple THEN "AssertionError"
    ELSE IF c.kernel_len # 2 THEN "AssertionError"
    ELSE IF ~(c.sigma >= 0) THEN "AssertionError"
    ELSE IF ~average_ok(c.average) THEN "AssertionError"
    ELSE IF c.method \notin FocusMethods THEN "AssertionError"
    ELSE IF c.sharpness \notin SharpnessMethods THEN "AssertionError"
    ELSE "none"

\* _get_motor_objs: the motion target, a Motor or a VirtualMotor of n motors
get_motor_objs(mp) ==
    IF mp.type \in {"Motor", "VirtualMotor"} THEN [type |-> mp.type, n |-> mp.n]
    ELSE IF mp.type = "name" THEN [type |-> "Motor", n |-> 1]
    ELSE [type |-> "VirtualMotor", n |-> mp.n]

\* range(*pos) raises ValueError for a zero step
range_fails(pos) == Len(pos) = 3 /\ pos[3] = 0

\* range(*pos) for a list of two or three numbers
range_of(pos) ==
    IF Len(pos) = 3 THEN py_range(pos[1], pos[2], pos[3]) ELSE py_range(pos[1], pos[2], 1)

\* a list of tuples, and a list of numbers, as lists of Python values
tuples_of(l) == [i \in 1..Len(l) |-> TupV(l[i])]

ints_of(l) == [i \in 1..Len(l) |-> IntV(l[i])]

\* _get_motor_iters: [err, none, items]; the iterator is None (none) or walks items
get_motor_iters(p) ==
    IF plen(p) = 0 THEN [err |-> "none", none |-> TRUE, items |-> <<>>]
    ELSE IF p.shape = "nested"
    THEN IF \E i \in 1..Len(p.axes) : range_fails(p.axes[i])
         THEN [err |-> "ValueError", none |-> TRUE, items |-> <<>>]
         ELSE [err |-> "none", none |-> FALSE,
               items |-> tuples_of(py_zip([i \in 1..Len(p.axes) |-> range_of(p.axes[i])]))]
    ELSE IF range_fails(p.v)
         THEN [err |-> "ValueError", none |-> TRUE, items |-> <<>>]
         ELSE [err |-> "none", none |-> FALSE, items |-> ints_of(range_of(p.v))]

\* ------------------------------------------------------------------ state
VARIABLES
    env,          \* "shipped" or "patched": what the process binds (see above)
    state,        \* New, Failed, Idle, Searching, Converged, Aborted
    err,          \* the exception that ended construction or the run, or "none"
    cfg,          \* the attributes __init__ copies from its arguments
    best_pos,     \* self.best_pos
    best_focus,   \* self.best_focus
    motors,       \* self._motors
    motor_iters,  \* self._motor_iters: [none, items], the items not yet taken
    actuated,     \* an actuator operation (construct, move, wait, read) was invoked
    runs,         \* focus() invocations so far
    pc,           \* where the running focus() is
    trial,        \* trials started in this run
    cur_pos,      \* the position the motors were last sent to
    moved,        \* per-actuator move commands issued in this trial
    waited,       \* per-actuator waits returned in this trial
    score,        \* the averaged focus of the last completed trial (-1: none)
    run_max,      \* history: the greatest averaged focus of this run (-1: none)
    first_max,    \* history: the first trial of this run that scored run_max
    best_trial,   \* history: the trial of this run that set best_pos (0: none)
    ret,          \* what the last focus() returned, [some, val]
    evals,        \* objective evaluations of this hill climb
    hill_x,       \* the evaluated position with the least objective so far
    x0,           \* the position the hill climb was started from
    used,         \* the metric name of the last get_ave_focus call of this run
    acquired,     \* frames acquired in this trial
    vm,           \* a VirtualMotor driven directly
    en,           \* an enumeration of positions on its own
    av,           \* one get_ave_focus call on its own
    mo            \* one image through get_opening and get_closing

vars ==
    <<env, state, err, cfg, best_pos, best_focus, motors, motor_iters, actuated, runs,
      pc, trial, cur_pos, moved, waited, score, run_max, first_max, best_trial,
      ret, evals, hill_x, x0, used, acquired, vm, en, av, mo>>

\* the variables of the controller
focus_vars ==
    <<env, state, err, cfg, best_pos, best_focus, motors, motor_iters, actuated, runs,
      pc, trial, cur_pos, moved, waited, score, run_max, first_max, best_trial,
      ret, evals, hill_x, x0, used, acquired>>

Scores == 0..MaxScore

NoRet == [some |-> FALSE, val |-> NoneV]

NoMotors == [type |-> "None", n |-> 0]

VmIdle == [n |-> 0, at |-> <<>>, arg |-> <<>>, err |-> "none", moved |-> 0, waited |-> 0,
           called |-> "none"]

EnIdle == [p |-> NonePositions, done |-> FALSE, err |-> "none",
           none |-> TRUE, items |-> <<>>]

\* no get_ave_focus call: average, the arguments sharpness and const, the loop
\* index, the frames get_image returned, the images the metric was applied
\* to, the metric names applied, the scores stored and the mean returned
AvIdle == [n |-> 0, sharpness |-> "laplacian", const |-> 1, pc |-> "idle", i |-> 0,
           cam |-> 0, frames |-> <<>>, scored |-> <<>>, metric |-> <<>>,
           scores |-> <<>>, err |-> "none", mean |-> [num |-> 0, den |-> 0]]

\* no image: the pixels, the parameters, and the image after each of the two
\* passes of opening-then-closing
MoIdle == [x |-> <<>>, n_erode |-> 0, n_dilate |-> 0, kernel |-> {}, pc |-> "idle",
           passes |-> 0, opened |-> <<>>, once |-> <<>>, twice |-> <<>>]

\* the controller before Focus(...) is called
FocusInit ==
    /\ env \in {"shipped", "patched"}
    /\ state = "New"
    /\ err = "none"
    /\ cfg = BaseConfig
    /\ best_pos = NoneV
    /\ best_focus = 0
    /\ motors = NoMotors
    /\ motor_iters = [none |-> TRUE, items |-> <<>>]
    /\ actuated = FALSE
    /\ runs = 0
    /\ pc = "idle"
    /\ trial = 0
    /\ cur_pos = NoneV
    /\ moved = 0
    /\ waited = 0
    /\ score = -1
    /\ run_max = -1
    /\ first_max = 0
    /\ best_trial = 0
    /\ ret = NoRet
    /\ evals = 0
    /\ hill_x = NoneV
    /\ x0 = NoneV
    /\ used = "none"
    /\ acquired = 0

Init ==
    /\ FocusInit
    /\ vm = VmIdle
    /\ en = EnIdle
    /\ av = AvIdle
    /\ mo = MoIdle

\* Focus.__init__(motor_pv, camera_pv, **kwargs), lines 35-55
Construct ==
    /\ state = "New"
    /\ \E c \in ConfigInputs :
        LET e1 == check_arguments(env, c)
            it == get_motor_iters(c.positions)
            \* Motor(...) and VirtualMotor(...) are called for PV names only
            built == c.motor_pv.type \in {"name", "names"}
        IN
        /\ cfg' = c
        /\ best_pos' = NoneV
        /\ best_focus' = 0
        /\ IF e1 # "none"
           THEN /\ state' = "Failed" /\ err' = e1
                /\ UNCHANGED <<motors, motor_iters, actuated>>
           ELSE /\ motors' = get_motor_objs(c.motor_pv)
                /\ actuated' = (actuated \/ built)
                /\ IF it.err # "none"
                   THEN state' = "Failed" /\ err' = it.err /\ UNCHANGED motor_iters
                   ELSE /\ state' = "Idle" /\ err' = "none"
                        /\ motor_iters' = [none |-> it.none, items |-> it.items]
    /\ UNCHANGED <<env, runs, pc, trial, cur_pos, moved, waited, score, run_max,
                   first_max, best_trial, ret, evals, hill_x, x0, used, acquired,
                   vm, en, av, mo>>

\* ------------------------------------------------------------------ collaborators
\* VirtualMotor.mv(vals), lines 223-229: [err, moved]; moved is the number of
\* motor.mv calls issued.  Line 224 reads val, the loop variable of line 225,
\* before the loop has bound it.
vm_mv(n, vals) == [err |-> "UnboundLocalError", moved |-> 0]

\* self._motors.mv(position): the outcomes [err, moved].  A blbase Motor moves
\* or raises; a VirtualMotor does what vm_mv does.
mv_outcomes(m, position) ==
    IF m.type = "VirtualMotor"
    THEN {vm_mv(m.n, position.v)}
    ELSE {[err |-> "none", moved |-> 1], [err |-> "MotionError", moved |-> 0]}

\* self._motors.wait(): the outcomes [err, waited].  VirtualMotor.wait, lines
\* 234-236, waits for its motors one after the other; the first wait that
\* raises ends it.
wait_outcomes(m) ==
    IF m.type = "VirtualMotor"
    THEN {[err |-> "none", waited |-> m.n]}
         \cup {[err |-> "MotionTimeoutError", waited |-> k] : k \in 0..(m.n - 1)}
    ELSE {[err |-> "none", waited |-> 1], [err |-> "MotionTimeoutError", waited |-> 0]}

\* get_ave_focus(sharpness, const), lines 145-150, with average = n: the
\* outcomes [err, focus, frames].  The images are the camera's: the mean is
\* any score, times const, after n frames; an acquisition may fail after
\* fewer.
ave_focus_outcomes(const, n) ==
    {[err |-> "none", focus |-> const * f, frames |-> n] : f \in Scores}
    \cup {[err |-> "AcquisitionError", focus |-> 0, frames |-> k] : k \in 0..(n - 1)}

\* the sharpness get_ave_focus uses when its caller passes none, line 145
default_sharpness == "laplacian"

\* pre_focus_hook and post_focus_hook, lines 175-179: they do nothing here
\* and are there to be overridden; an overriding hook returns or raises
hook_outcomes == {"none", "HookError"}

\* self._motors.wm(), line 164: where the n actuators are
wm_outcomes(n) == {TupV(x) : x \in [1..n -> 0..1]}

\* self.positions.next(), line 186: what the caller's positions object hands
\* back, one of its elements or the end of its iteration
next_outcomes(p) ==
    {[err |-> "StopIteration", val |-> NoneV]}
    \cup (IF p.shape = "nested"
          THEN {[err |-> "none", val |-> TupV(p.axes[i])] : i \in 1..Len(p.axes)}
          ELSE {[err |-> "none", val |-> IntV(p.v[i])] : i \in 1..Len(p.v)})

\* ------------------------------------------------------------------ Focus.focus
\* an exception that is caught and turned into a normal return
Abort_returns(e) ==
    /\ state' = "Converged"
    /\ err' = e
    /\ pc' = "idle"
    /\ ret' = NoRet

\* an exception leaves focus(): nothing is returned, the attributes stay
Abort(e) ==
    /\ state' = "Aborted"
    /\ err' = e
    /\ pc' = "idle"
    /\ ret' = NoRet

\* focus(method, sharpness), lines 168-173, up to the first call on a
\* collaborator: the names are stored, the strategy is looked up and entered
\* (_scan_focus lines 152-154, _hillclimb_focus line 164 up to wm())
Focus(method, sharpness) ==
    /\ state \in {"Idle", "Converged", "Aborted"}
    /\ runs < MaxRuns
    /\ runs' = runs + 1
    /\ cfg' = [cfg EXCEPT !.method = method, !.sharpness = sharpness]
    /\ trial' = 0 /\ moved' = 0 /\ waited' = 0 /\ score' = -1 /\ evals' = 0
    /\ run_max' = -1 /\ first_max' = 0 /\ best_trial' = 0
    /\ cur_pos' = NoneV /\ hill_x' = NoneV
    /\ used' = "none" /\ acquired' = 0
    /\ IF method \notin FocusMethods
       THEN Abort("KeyError") /\ UNCHANGED actuated /\ x0' = NoneV
       ELSE IF method = "scan"
       THEN /\ UNCHANGED actuated /\ x0' = NoneV
            /\ IF motor_iters.none
               THEN Abort("AssertionError")
               ELSE /\ state' = "Searching" /\ pc' = "step"
                    /\ err' = "none" /\ ret' = NoRet
       ELSE /\ actuated' = TRUE
            /\ \E seed \in wm_outcomes(motors.n) : x0' = seed
            /\ state' = "Searching" /\ pc' = "eval"
            /\ err' = "none" /\ ret' = NoRet
    /\ UNCHANGED <<env, best_pos, best_focus, motors, motor_iters, vm, en, av, mo>>

\* ------------------------------------------------------------------ scan
\* IterScan.scan_mesh, one step: the next position is taken from the motor
\* iterator, pre_step (line 182) runs and the motors are sent there
ScanMove ==
    /\ state = "Searching" /\ pc = "step"
    /\ Len(motor_iters.items) > 0
    /\ LET position == Head(motor_iters.items) IN
       \E o \in mv_outcomes(motors, position) :
        /\ motor_iters' = [motor_iters EXCEPT !.items = Tail(@)]
        /\ trial' = trial + 1
        /\ actuated' = TRUE
        /\ cur_pos' = position
        /\ moved' = o.moved
        /\ waited' = 0
        /\ acquired' = 0
        /\ IF o.err # "none"
           THEN Abort(o.err)
           ELSE pc' = "wait" /\ UNCHANGED <<state, err, ret>>
    /\ UNCHANGED <<env, cfg, best_pos, best_focus, motors, runs, score, run_max,
                   first_max, best_trial, evals, hill_x, x0, used, vm, en, av, mo>>

\* IterScan.scan_mesh, one step: the scan blocks until the motion settles
ScanWait ==
    /\ state = "Searching" /\ pc = "wait"
    /\ \E o \in wait_outcomes(motors) :
        /\ actuated' = TRUE
        /\ waited' = o.waited
        /\ IF o.err # "none"
           THEN Abort(o.err)
           ELSE pc' = "post_step" /\ UNCHANGED <<state, err, ret>>
    /\ UNCHANGED <<env, cfg, best_pos, best_focus, motors, motor_iters, runs, trial,
                   cur_pos, moved, score, run_max, first_max, best_trial,
                   evals, hill_x, x0, used, acquired, vm, en, av, mo>>

\* a comparison that lets a tie replace the best
improves_on_tie(focus, best) == focus >= best

\* the comparison of post_step, line 189
improves(focus, best) == focus > best

\* Focus.post_step, lines 185-192, the hook IterScan calls after every step:
\* self.positions.next(), pre_focus_hook, get_ave_focus(), the comparison and
\* post_focus_hook, one after the other; an exception of any of them leaves
\* post_step where it is raised
post_step ==
    /\ state = "Searching" /\ pc = "post_step"
    /\ \E nx \in next_outcomes(cfg.positions) :
        IF nx.err # "none"
        THEN /\ Abort(nx.err)
             /\ UNCHANGED <<best_pos, best_focus, score, run_max, first_max, best_trial,
                            used, acquired>>
        ELSE \E pre \in hook_outcomes :
        IF pre # "none"
        THEN /\ Abort(pre)
             /\ UNCHANGED <<best_pos, best_focus, score, run_max, first_max, best_trial,
                            used, acquired>>
        ELSE \E f \in ave_focus_outcomes(1, cfg.average.val) :
        IF f.err # "none"
        THEN /\ Abort(f.err)
             /\ used' = default_sharpness
             /\ acquired' = f.frames
             /\ UNCHANGED <<best_pos, best_focus, score, run_max, first_max, best_trial>>
        ELSE /\ used' = default_sharpness
             /\ acquired' = f.frames
             /\ score' = f.focus
             /\ IF improves(f.focus, best_focus)
                THEN /\ best_focus' = f.focus
                     /\ best_pos' = nx.val
                     /\ best_trial' = trial
                ELSE UNCHANGED <<best_pos, best_focus, best_trial>>
             /\ run_max' = Max2(run_max, f.focus)
             /\ first_max' = IF f.focus > run_max THEN trial ELSE first_max
             /\ \E post \in hook_outcomes :
                IF post # "none"
                THEN Abort(post)
                ELSE pc' = "step" /\ UNCHANGED <<state, err, ret>>
    /\ UNCHANGED <<env, cfg, motors, motor_iters, actuated, runs, trial, cur_pos, moved,
                   waited, evals, hill_x, x0, vm, en, av, mo>>

\* the motor iterator is exhausted: post_scan (lines 197-199) prints, scan_mesh
\* returns and _scan_focus returns self.best_pos (line 156)
post_scan ==
    /\ state = "Searching" /\ pc = "step"
    /\ Len(motor_iters.items) = 0
    /\ state' = "Converged"
    /\ pc' = "idle"
    /\ ret' = [some |-> TRUE, val |-> best_pos]
    /\ UNCHANGED <<env, err, cfg, best_pos, best_focus, motors, motor_iters, actuated, runs,
                   trial, cur_pos, moved, waited, score, run_max, first_max,
                   best_trial, evals, hill_x, x0, used, acquired, vm, en, av, mo>>

\* ------------------------------------------------------------------ hill climb
\* the positions the minimizer proposes for a target of n actuators
HillPositions(n) == {TupV(x) : x \in [1..n -> 0..1]}

\* an objective that goes on when only the move has returned
settled_unwaited(m, w) == m.err = "none"

\* lines 159-160: line 161 is reached when mv and then wait have returned
settled(m, w) == m.err = "none" /\ w.err = "none"

\* Focus._move_and_focus(position), lines 158-161, the objective minimize()
\* calls, first at the position it was started from: move, wait, and the
\* averaged focus times -1
move_and_focus ==
    /\ state = "Searching" /\ pc = "eval"
    /\ evals < MaxEvals
    /\ \E position \in HillPositions(motors.n) :
        /\ evals = 0 => position = x0
        /\ cur_pos' = position
        /\ evals' = evals + 1
        /\ actuated' = TRUE
        /\ \E m \in mv_outcomes(motors, position) :
           /\ moved' = m.moved
           /\ IF m.err # "none"
              THEN /\ Abort(m.err)
                   /\ waited' = 0 /\ acquired' = 0
                   /\ UNCHANGED <<score, run_max, hill_x, used>>
              ELSE \E w \in wait_outcomes(motors) :
              /\ waited' = w.waited
              /\ IF ~settled(m, w)
                 THEN /\ Abort(w.err)
                      /\ acquired' = 0
                      /\ UNCHANGED <<score, run_max, hill_x, used>>
                 ELSE \E f \in ave_focus_outcomes(-1, cfg.average.val) :
                 /\ acquired' = f.frames
                 /\ used' = default_sharpness
                 /\ IF f.err # "none"
                    THEN /\ Abort(f.err)
                         /\ UNCHANGED <<score, run_max, hill_x>>
                    ELSE /\ score' = 0 - f.focus
                         /\ run_max' = Max2(run_max, 0 - f.focus)
                         /\ hill_x' = IF 0 - f.focus > run_max THEN position ELSE hill_x
                         /\ UNCHANGED <<state, err, pc, ret>>
    /\ UNCHANGED <<env, cfg, best_pos, best_focus, motors, motor_iters, runs, trial,
                   first_max, best_trial, x0, vm, en, av, mo>>

\* minimize() returns: line 164 stores its result in best_pos, line 166 returns it
hillclimb_done ==
    /\ state = "Searching" /\ pc = "eval"
    /\ evals >= 1
    /\ best_pos' = ResultV(hill_x.v)
    /\ state' = "Converged"
    /\ pc' = "idle"
    /\ ret' = [some |-> TRUE, val |-> ResultV(hill_x.v)]
    /\ UNCHANGED <<env, err, cfg, best_focus, motors, motor_iters, actuated, runs, trial,
                   cur_pos, moved, waited, score, run_max, first_max, best_trial,
                   evals, hill_x, x0, used, acquired, vm, en, av, mo>>

\* ------------------------------------------------------------------ the enumerator alone
\* (start, stop, step) triples of either direction, and with a zero step
EnumTriples == {<<a, b, c>> : a \in 0..1, b \in 0..MaxStop, c \in -1..2}

\* single-axis and multi-axis position specs
EnumPositions ==
    {Flat(t) : t \in EnumTriples}
    \cup {Nested(l) : l \in UNION {[1..k -> EnumTriples] : k \in 1..MaxMotors}}

\* the configuration that goes with a position spec: one motor PV for a single
\* range, one PV per range otherwise
enum_config(p) ==
    [BaseConfig EXCEPT
        !.positions = p,
        !.motor_pv = IF p.shape = "nested"
                     THEN [type |-> "names", n |-> Len(p.axes), strs |-> TRUE]
                     ELSE BaseConfig.motor_pv]

EnumInit ==
    /\ FocusInit
    /\ env = "patched"
    /\ vm = VmIdle
    /\ av = AvIdle
    /\ mo = MoIdle
    /\ en \in {[EnIdle EXCEPT !.p = p] : p \in EnumPositions}

\* Focus.__init__ lines 53-55 on that configuration: the arguments are checked
\* and the motor iterator is built
Enumerate ==
    /\ ~en.done
    /\ LET c  == enum_config(en.p)
           e1 == check_arguments(env, c)
           it == get_motor_iters(c.positions)
       IN en' = [en EXCEPT !.done = TRUE,
                           !.err = IF e1 # "none" THEN e1 ELSE it.err,
                           !.none = IF e1 # "none" THEN TRUE ELSE it.none,
                           !.items = IF e1 # "none" THEN <<>> ELSE it.items]
    /\ UNCHANGED focus_vars
    /\ UNCHANGED <<vm, av, mo>>

EnumNext ==
    \/ Enumerate

SpecEnum == EnumInit /\ [][EnumNext]_vars

\* ------------------------------------------------------------------ a VirtualMotor alone
\* the values handed to mv: lists of up to one more than the group has motors
VmArgs(n) == UNION {[1..k -> 0..1] : k \in 0..(n + 1)}

VmInit ==
    /\ FocusInit
    /\ env = "patched"
    /\ en = EnIdle
    /\ av = AvIdle
    /\ mo = MoIdle
    /\ \E n \in 1..MaxMotors :
        vm \in {[VmIdle EXCEPT !.n = n, !.at = a] : a \in [1..n -> 0..1]}

\* VirtualMotor.mv(vals), lines 223-229, called on the group; at: where the
\* motors were last sent
VmMv ==
    /\ \E vals \in VmArgs(vm.n) :
        LET o == vm_mv(vm.n, vals) IN
        vm' = [vm EXCEPT !.called = "mv", !.arg = vals, !.err = o.err,
                         !.moved = o.moved, !.waited = 0,
                         !.at = IF o.moved = vm.n /\ o.err = "none" THEN vals ELSE @]
    /\ UNCHANGED focus_vars
    /\ UNCHANGED <<en, av, mo>>

\* VirtualMotor.wait(), lines 234-236, called on the group
VmWait ==
    /\ \E o \in wait_outcomes([type |-> "VirtualMotor", n |-> vm.n]) :
        vm' = [vm EXCEPT !.called = "wait", !.err = o.err, !.waited = o.waited]
    /\ UNCHANGED focus_vars
    /\ UNCHANGED <<en, av, mo>>

VmNext ==
    \/ VmMv
    \/ VmWait

SpecVm == VmInit /\ [][VmNext]_vars

\* ------------------------------------------------------------------ get_ave_focus alone
\* what the model keeps of an image: what the camera saw, and whether
\* preprocess has been applied to it
Images == [id : 0..MaxImage, prep : BOOLEAN]

\* the frames a camera delivers
RawImages == {image \in Images : ~image.prep}

\* Focus.preprocess(image), lines 107-123: to_uint8, resize, GaussianBlur and
\* equalizeHist give another image of the same scene
preprocess(image) == [image EXCEPT !.prep = TRUE]

\* Focus._laplacian_var(image), lines 133-134.  The number is OpenCV's; the
\* model has it differ between a frame and its preprocessed image.
laplacian_var(image) == IF image.prep THEN 2 * image.id ELSE image.id

\* Focus._sobel_var(image), lines 136-139: another number than the Laplacian's
sobel_var(image) == 1 + (IF image.prep THEN 2 * image.id ELSE image.id)

\* self._sharpness_methods[name](image), the dictionary of lines 51-52
sharpness_methods(name, image) ==
    IF name = "sobel" THEN sobel_var(image) ELSE laplacian_var(image)

\* Focus.get_focus(image, sharpness, const), lines 141-143: line 142 computes
\* image_prep, line 143 applies the metric to image.  on and metric record
\* what the metric was applied to and which metric it was.
get_focus(image, sharpness, const) ==
    LET image_prep == preprocess(image) IN
    [on |-> image, metric |-> sharpness,
     val |-> const * sharpness_methods(sharpness, image)]

\* Focus.get_image(), lines 125-131: pv.get or self.imager() hands back the
\* next frame of the camera, or raises.  cam counts the frames delivered.
get_image_outcomes(cam) ==
    {[err |-> "none", frame |-> [no |-> cam + 1, image |-> image]] : image \in RawImages}
    \cup {[err |-> "AcquisitionError", frame |-> [no |-> cam, image |-> [id |-> 0, prep |-> FALSE]]]}

\* a loop that runs once more than range(self.average)
samples_left_inclusive(i, n) == i <= n

\* for i in range(self.average), line 147: the loop goes on while i < average
samples_left(i, n) == i < n

RECURSIVE SumSeq(_)
SumSeq(xs) == IF Len(xs) = 0 THEN 0 ELSE Head(xs) + SumSeq(Tail(xs))

\* focus.mean(), line 150, of the array of self.average scores, as a fraction
mean_of(scores, n) == [num |-> SumSeq(scores), den |-> n]

AveInit ==
    /\ FocusInit
    /\ env = "patched"
    /\ vm = VmIdle
    /\ en = EnIdle
    /\ mo = MoIdle
    /\ av \in {[AvIdle EXCEPT !.n = n, !.sharpness = s, !.const = c, !.pc = "loop"] :
                n \in 1..MaxSamples, s \in SharpnessMethods, c \in {1, -1}}

\* get_ave_focus line 148: image = self.get_image()
get_image ==
    /\ av.pc = "loop"
    /\ samples_left(av.i, av.n)
    /\ \E o \in get_image_outcomes(av.cam) :
        IF o.err # "none"
        THEN av' = [av EXCEPT !.pc = "raised", !.err = o.err]
        ELSE av' = [av EXCEPT !.pc = "score", !.cam = o.frame.no,
                              !.frames = Append(@, o.frame)]
    /\ UNCHANGED focus_vars
    /\ UNCHANGED <<vm, en, mo>>

\* get_ave_focus line 149: focus[i] = self.get_focus(image, sharpness, const)
get_focus_step ==
    /\ av.pc = "score"
    /\ LET image == av.frames[Len(av.frames)].image
           r == get_focus(image, av.sharpness, av.const)
       IN av' = [av EXCEPT !.pc = "loop", !.i = @ + 1,
                           !.scored = Append(@, r.on),
                           !.metric = Append(@, r.metric),
                           !.scores = Append(@, r.val)]
    /\ UNCHANGED focus_vars
    /\ UNCHANGED <<vm, en, mo>>

\* get_ave_focus line 150: the loop is over, the mean is returned
get_ave_focus_return ==
    /\ av.pc = "loop"
    /\ ~samples_left(av.i, av.n)
    /\ av' = [av EXCEPT !.pc = "done", !.mean = mean_of(av.scores, av.n)]
    /\ UNCHANGED focus_vars
    /\ UNCHANGED <<vm, en, mo>>

AveNext ==
    \/ get_image
    \/ get_focus_step
    \/ get_ave_focus_return

SpecAve == AveInit /\ [][AveNext]_vars

\* ------------------------------------------------------------------ psbeam/morph.py
\* binary images of one row of MorphWidth pixels
BinaryImages == [1..MorphWidth -> {0, 1}]

\* kernels of one row of up to three elements around the anchor, as the set of
\* the offsets of their non-zero elements; the anchor itself is set
Kernels == {k \in SUBSET (-1..1) : 0 \in k}

\* cv2.erode, one iteration: a pixel stays set when every pixel under the
\* kernel is set; pixels outside the image do not count (the default border)
erode1(image, kernel) ==
    [p \in 1..Len(image) |->
        IF \A k \in kernel : (p + k) \in 1..Len(image) => image[p + k] = 1
        THEN 1 ELSE 0]

\* cv2.dilate, one iteration: a pixel is set when some pixel under the kernel
\* is set; pixels outside the image do not count
dilate1(image, kernel) ==
    [p \in 1..Len(image) |->
        IF \E k \in kernel : (p + k) \in 1..Len(image) /\ image[p + k] = 1
        THEN 1 ELSE 0]

\* cv2.erode(image, kernel, iterations=n)
RECURSIVE erode(_, _, _)
erode(image, kernel, n) ==
    IF n = 0 THEN image ELSE erode(erode1(image, kernel), kernel, n - 1)

\* cv2.dilate(image, kernel, iterations=n)
RECURSIVE dilate(_, _, _)
dilate(image, kernel, n) ==
    IF n = 0 THEN image ELSE dilate(dilate1(image, kernel), kernel, n - 1)

\* get_opening(image, n_erode, n_dilate, kernel), morph.py lines 27-53
get_opening(image, n_erode, n_dilate, kernel) ==
    LET image_eroded == erode(image, kernel, n_erode)
        image_opened == dilate(image_eroded, kernel, n_dilate)
    IN image_opened

\* a closing that erodes once too often
get_closing_extra_erode(image, n_erode, n_dilate, kernel) ==
    erode(dilate(image, kernel, n_dilate), kernel, n_erode + 1)

\* get_closing(image, n_erode, n_dilate, kernel), morph.py lines 55-81
get_closing(image, n_erode, n_dilate, kernel) ==
    LET image_dilated == dilate(image, kernel, n_dilate)
        image_closed  == erode(image_dilated, kernel, n_erode)
    IN image_closed

MorphInit ==
    /\ FocusInit
    /\ env = "patched"
    /\ vm = VmIdle
    /\ en = EnIdle
    /\ av = AvIdle
    /\ mo \in {[MoIdle EXCEPT !.x = x, !.n_erode = e, !.n_dilate = d, !.kernel = k,
                              !.pc = "open"] :
                x \in BinaryImages, e \in 0..MaxIterations, d \in 0..MaxIterations,
                k \in Kernels}

\* get_opening on the image, or on the result of the first pass
MorphOpen ==
    /\ mo.pc = "open"
    /\ LET image == IF mo.passes = 0 THEN mo.x ELSE mo.once IN
       mo' = [mo EXCEPT !.pc = "close",
                        !.opened = get_opening(image, mo.n_erode, mo.n_dilate, mo.kernel)]
    /\ UNCHANGED focus_vars
    /\ UNCHANGED <<vm, en, av>>

\* get_closing on the opened image, with the same parameters
MorphClose ==
    /\ mo.pc = "close"
    /\ LET closed == get_closing(mo.opened, mo.n_erode, mo.n_dilate, mo.kernel) IN
       IF mo.passes = 0
       THEN mo' = [mo EXCEPT !.pc = "open", !.passes = 1, !.once = closed]
       ELSE mo' = [mo EXCEPT !.pc = "done", !.passes = 2, !.twice = closed]
    /\ UNCHANGED focus_vars
    /\ UNCHANGED <<vm, en, av>>

MorphNext ==
    \/ MorphOpen
    \/ MorphClose

SpecMorph == MorphInit /\ [][MorphNext]_vars

Next ==
    \/ Construct
    \/ \E m \in MethodNames, s \in SharpnessNames : Focus(m, s)
    \/ ScanMove
    \/ ScanWait
    \/ post_step
    \/ post_scan
    \/ move_and_focus
    \/ hillclimb_done

Spec == Init /\ [][Next]_vars

\* the scan under its scheduling: focus() runs in one thread and every call on
\* a collaborator returns or raises, so a step that can be taken is taken
SpecLive ==
    /\ Spec
    /\ WF_vars(ScanMove)
    /\ WF_vars(ScanWait)
    /\ WF_vars(post_step)
    /\ WF_vars(post_scan)

C2_BestIsMaxOfRun ==
    (state = "Converged" /\ cfg.method = "scan" /\ runs = 1 /\ trial >= 1) =>
        /\ best_focus = run_max
        /\ best_trial # 0
        /\ best_pos # NoneV
        /\ ret = [some |-> TRUE, val |-> best_pos]

\* C3: a second or later focus() starts from (None, initial score): while no
\* trial of that call has set the best, the controller holds no position and
\* no score of an earlier call, and a scan that ends so reports None.
C3_ResetAtEachFocus ==
    (runs >= 2 /\ state \in {"Searching", "Converged"}
        /\ (cfg.method = "scan" \/ state = "Searching") /\ best_trial = 0) =>
        (best_pos = NoneV /\ best_focus = 0)

\* C4: when a move, a wait or an acquisition fails in a trial of the first
\* run, the run is Aborted, nothing is returned and the controller holds no
\* best position or score of the earlier trials.
C4_AbortDiscardsBest ==
    (state = "Aborted" /\ runs = 1
        /\ err \in {"MotionError", "MotionTimeoutError", "AcquisitionError"}) =>
        (ret = NoRet /\ best_pos = NoneV /\ best_focus = 0)

\* the options C5 lists: sample count, resize factor, blur sigma, kernel
\* length, strategy and metric name
listed_invalid(c) ==
    \/ ~(c.average.int /\ c.average.val > 0)
    \/ c.resize <= 0
    \/ c.sigma < 0
    \/ c.kernel_len # 2
    \/ c.method \notin FocusMethods
    \/ c.sharpness \notin SharpnessMethods

\* C5: a controller constructed with an invalid sample count, resize factor,
\* sigma, kernel length, strategy or metric name fails in construction, and no
\* actuator operation was invoked before the failure.
C5_InvalidConfigFailsBeforeActuator ==
    (state # "New" /\ runs = 0 /\ listed_invalid(cfg)) =>
        (state = "Failed" /\ err # "none" /\ ~actuated)

\* C5 witness: construction with a sample count of 0, all else valid and every
\* name bound, failed on the check of the arguments.
C5_Witness ==
    /\ state = "Failed" /\ env = "patched" /\ err = "AssertionError"
    /\ cfg = [BaseConfig EXCEPT !.average = [int |-> TRUE, val |-> 0]]
    /\ ~actuated

\* C6: whenever a run is Searching, the strategy and the sharpness metric in
\* effect are recognized names, also when they came through focus().
C6_NamesValidWhileSearching ==
    state = "Searching" =>
        (cfg.method \in FocusMethods /\ cfg.sharpness \in SharpnessMethods)

\* the ranges of a multi-axis spec, when no step is zero
axis_ranges(p) == [a \in 1..Len(p.axes) |-> range_of(p.axes[a])]

\* every axis range of a multi-axis spec has the same length
equal_lengths(p) ==
    \A a, b \in 1..Len(p.axes) : Len(range_of(p.axes[a])) = Len(range_of(p.axes[b]))

\* C7: a multi-axis spec whose ranges all have length L enumerates exactly L
\* tuples, tuple i holding element i of every range; a spec whose ranges differ
\* in length fails instead of enumerating a truncated sequence.
C7_LockstepOrFail ==
    (en.done /\ en.p.shape = "nested" /\ Len(en.p.axes) >= 2
        /\ \A a \in 1..Len(en.p.axes) : ~range_fails(en.p.axes[a])) =>
        IF equal_lengths(en.p)
        THEN /\ en.err = "none"
             /\ Len(en.items) = Len(range_of(en.p.axes[1]))
             /\ \A i \in 1..Len(en.items) :
                 en.items[i] = TupV([a \in 1..Len(en.p.axes) |-> axis_ranges(en.p)[a][i]])
        ELSE en.err # "none"

\* a triple is valid: the step is not zero and points from start towards stop
valid_triple(t) ==
    \/ t[3] > 0 /\ t[2] > t[1]
    \/ t[3] < 0 /\ t[2] < t[1]

\* C8: a valid single-axis triple enumerates start, start+step, ... short of
\* stop, each value as a 1-tuple, ceil((stop-start)/step) of them and no value
\* twice; a triple with step = 0 or start = stop fails instead of enumerating
\* nothing.
C8_SingleAxisSequence ==
    (en.done /\ en.p.shape = "flat") =>
        LET t == en.p.v
            d == IF t[3] > 0 THEN t[2] - t[1] ELSE t[1] - t[2]
            k == IF t[3] > 0 THEN t[3] ELSE 0 - t[3]
        IN
        /\ valid_triple(t) =>
            /\ en.err = "none"
            /\ Len(en.items) = CeilDiv(d, k)
            /\ \A i \in 1..Len(en.items) : en.items[i] = TupV(<<t[1] + (i - 1) * t[3]>>)
            /\ \A i, j \in 1..Len(en.items) : i # j => en.items[i] # en.items[j]
        /\ (t[3] = 0 \/ t[1] = t[2]) => en.err # "none"

\* C9: in every trial on a group of N actuators all N moves are issued, no wait
\* is awaited before them, and the averaged focus is taken only after all N
\* waits have returned.
C9_GroupMoveIsOneStep ==
    (motors.type = "VirtualMotor" /\ runs >= 1 /\ cur_pos # NoneV) =>
        /\ moved = motors.n
        /\ (waited > 0 => moved = motors.n)
        /\ (pc = "post_step" \/ score >= 0 => waited = motors.n)

\* C10: VirtualMotor.mv on a group of N motors with N values sends motor i to
\* value i for every i; with any other number of values it raises ValueError
\* and sends no motor anywhere.
C10_MvArity ==
    vm.called = "mv" =>
        IF Len(vm.arg) = vm.n
        THEN vm.err = "none" /\ vm.moved = vm.n /\ vm.at = vm.arg
        ELSE vm.err = "ValueError" /\ vm.moved = 0

\* C11: a get_ave_focus call that returns has acquired exactly average frames,
\* every one a new frame of the camera and none used for two samples; it never
\* acquires more; what it returns is the sum of the average scores over
\* average, and with average = 1 it is the score of the one frame.
C11_MeanOfFreshSamples ==
    /\ av.cam <= av.n
    /\ av.pc = "done" =>
        /\ av.cam = av.n /\ Len(av.frames) = av.n /\ Len(av.scores) = av.n
        /\ \A i, j \in 1..Len(av.frames) : i # j => av.frames[i].no # av.frames[j].no
        /\ \A i \in 1..av.n :
            av.scores[i] = get_focus(av.frames[i].image, av.sharpness, av.const).val
        /\ av.mean.den = av.n
        /\ av.mean.num = SumSeq(av.scores)
        /\ (av.n = 1 => av.mean = [num |-> av.scores[1], den |-> 1])

\* C11 witness: a call with average = 3 returned the mean of three frames that
\* were not all the same image.
C11_Witness ==
    /\ av.pc = "done" /\ av.n = 3 /\ av.err = "none"
    /\ av.frames[1].image # av.frames[3].image
    /\ av.mean.num = av.scores[1] + av.scores[2] + av.scores[3]

\* C15: the score of every sample is the metric applied to the preprocessed
\* frame, metric(preprocess(raw)), never the metric applied to the raw frame.
C15_ScoreOfPreprocessed ==
    \A i \in 1..Len(av.scores) :
        /\ av.scored[i] = preprocess(av.frames[i].image)
        /\ av.scores[i] = av.const * sharpness_methods(av.sharpness, preprocess(av.frames[i].image))

\* C12: a hill climb evaluates its objective first at the position the target
\* was at, every evaluation that scores has moved the target and waited for
\* all of it before, and the climb returns the position of the least objective
\* (the greatest averaged focus) as the best position.
C12_HillClimbReturnsPosition ==
    (cfg.method = "hillclimb" /\ runs >= 1 /\ state \in {"Searching", "Converged"}) =>
        /\ (evals = 1 => cur_pos = x0)
        /\ (score >= 0 => (moved = motors.n /\ waited = motors.n))
        /\ (state = "Converged" =>
              (ret = [some |-> TRUE, val |-> hill_x] /\ best_pos = hill_x))

\* C13: a hook that raises never aborts the run.
C13_HookFailureIsolated ==
    ~(state = "Aborted" /\ err = "HookError")

\* C17: when a trial of a scan has set the best position, the position stored
\* is the one the motors were sent to and settled at in that trial.
C17_BestPosIsMotorPos ==
    (cfg.method = "scan" /\ state = "Searching" /\ pc = "step"
        /\ trial >= 1 /\ best_trial = trial) =>
        best_pos = cur_pos

\* the positions the configured spec enumerates
configured(c) == get_motor_iters(c.positions).items

\* C18: a scan that converges, the first or a later one of the controller,
\* has visited every configured position once and in order: trial i went to
\* position i and there were as many trials as positions.
C18_EveryScanVisitsAll ==
    /\ (cfg.method = "scan" /\ state = "Searching" /\ trial >= 1) =>
          (trial <= Len(configured(cfg)) /\ cur_pos = configured(cfg)[trial])
    /\ (cfg.method = "scan" /\ state = "Converged") =>
          trial = Len(configured(cfg))

\* C19: the metric every averaged focus of a run is taken with is the metric
\* selected for the run, in a scan and in a hill climb.
C19_SelectedMetricUsed ==
    (state \in {"Searching", "Converged"} /\ used # "none") => used = cfg.sharpness

\* C14: trials are sequential.  Frames are acquired only when all the motors
\* were moved and waited for in that trial; a score is stored only with the
\* average frames of its trial acquired, and the best changes only to the score
\* just stored; the move of the next trial is issued only after the trial
\* before it has scored and compared; nothing moves between the end of the wait
\* and the comparison.
C14_TrialsSequential ==
    /\ [](acquired > 0 => (moved = motors.n /\ waited = motors.n))
    /\ [][(score' # score /\ score' >= 0) =>
            (acquired' = cfg.average.val /\ moved' = motors.n /\ waited' = motors.n)]_vars
    /\ [][best_focus' # best_focus =>
            (best_focus' = score' /\ acquired' = cfg.average.val)]_vars
    /\ [][trial' = trial + 1 =>
            (pc = "step" /\ (trial = 0 \/ (acquired = cfg.average.val /\ score >= 0)))]_vars
    /\ [][pc = "post_step" => UNCHANGED <<cur_pos, moved, waited, trial>>]_vars

\* C14 witness: the second trial of a scan has moved, waited, acquired its
\* frames, scored and compared, and the third has not started.
C14_Witness ==
    /\ state = "Searching" /\ cfg.method = "scan" /\ pc = "step" /\ trial = 2
    /\ moved = motors.n /\ waited = motors.n /\ acquired = cfg.average.val
    /\ score >= 0 /\ Len(motor_iters.items) > 0

symmetric(kernel) == \A k \in kernel : (0 - k) \in kernel

\* C20: opening erodes n_erode times and then dilates n_dilate times, closing
\* dilates n_dilate times and then erodes n_erode times, and opening-then-closing
\* applied to an image that went through opening-then-closing with the same
\* parameters gives that image back.
C20_OpenCloseIdempotent ==
    /\ mo.passes >= 1 =>
        mo.once = erode(dilate(dilate(erode(mo.x, mo.kernel, mo.n_erode),
                                      mo.kernel, mo.n_dilate),
                               mo.kernel, mo.n_dilate),
                        mo.kernel, mo.n_erode)
    /\ mo.passes = 2 => mo.twice = mo.once

\* C20 amended: the same, for n_erode = n_dilate and a kernel symmetric about
\* its anchor.
C20_OpenCloseIdempotentEqualCounts ==
    /\ mo.passes >= 1 =>
        mo.once = erode(dilate(dilate(erode(mo.x, mo.kernel, mo.n_erode),
                                      mo.kernel, mo.n_dilate),
                               mo.kernel, mo.n_dilate),
                        mo.kernel, mo.n_erode)
    /\ (mo.passes = 2 /\ mo.n_erode = mo.n_dilate /\ symmetric(mo.kernel)) =>
        mo.twice = mo.once

\* C20 witness: with one erosion and one dilation of the full kernel, an image
\* that opening-then-closing changes came back unchanged from the second pass.
C20_Witness ==
    /\ mo.passes = 2 /\ mo.n_erode = 1 /\ mo.n_dilate = 1 /\ mo.kernel = {-1, 0, 1}
    /\ mo.once # mo.x /\ mo.twice = mo.once
    /\ \E p \in 1..MorphWidth : mo.once[p] = 1

====
